---- MODULE Spec2Model ----
(***************************************************************************)
(* A model of lib/database/index.js of sails-redis: the Database object    *)
(* that maps collection-level CRUD calls onto a key-value connection.      *)
(*                                                                         *)
(* Strings are sequences of one-character strings (fixed literals such as  *)
(* "waterline", "undefined" and "null" are single elements).  A JavaScript *)
(* value is a record [t, s, n]: t is its kind, s its characters (a string, *)
(* a date's text, an array's rendering), n its number.  A JavaScript       *)
(* object is a function over Attrs; an attribute the object does not have  *)
(* maps to None.                                                           *)
(***************************************************************************)
EXTENDS Integers, Sequences, FiniteSets

VARIABLES
    store,               \* the key-value store: a set of [key, val, ttl]
    schemaDefs,          \* schema._schema: lower-cased name -> description
    registered,          \* the names schema._schema holds an entry for
    primaryOf,           \* schema._primary: lower-cased name -> attribute
    definedCollections,  \* this.definedCollections: the names set to true
    calls                \* the calls in flight: slot -> call record

vars == <<store, schemaDefs, registered, primaryOf, definedCollections, calls>>

-----------------------------------------------------------------------------
(* JavaScript values *)

Attrs == {"id", "name", "at", "_ttl"}

V(t, s, n) == [t |-> t, s |-> s, n |-> n]
None == V("none", <<>>, 0)    \* the object has no such attribute
Undef == V("undef", <<>>, 0)  \* the attribute is there, its value undefined
Null == V("null", <<>>, 0)
NaN == V("nan", <<>>, 0)
Circ == V("circ", <<>>, 0)    \* an object that refers to itself
Str(s) == V("str", s, 0)
Num(n) == V("num", <<>>, n)
Date(s) == V("date", s, 0)
Arr(s) == V("arr", s, 0)      \* an array, s its elements joined by ","

EmptyObj == [a \in Attrs |-> None]
Obj(id, name, at, ttl) == [a \in Attrs |->
    CASE a = "id" -> id [] a = "name" -> name [] a = "at" -> at [] OTHER -> ttl]

\* obj[attr] as JavaScript reads it: undefined when the attribute is absent
GetAttr(obj, a) == IF a \in Attrs THEN obj[a] ELSE None

\* String.prototype.toLowerCase on the model's alphabet
LowerChar(ch) ==
    CASE ch = "U" -> "u" [] ch = "A" -> "a" [] ch = "B" -> "b"
      [] ch = "K" -> "k" [] OTHER -> ch
toLowerCase(s) == [i \in 1..Len(s) |-> LowerChar(s[i])]

IsSpace(ch) == ch \in {" ", "\t"}

\* str.replace(/\s+/g, '_'): every run of white space becomes one "_"
RECURSIVE ReplaceRuns(_, _)
ReplaceRuns(s, inRun) ==
    IF s = <<>> THEN <<>>
    ELSE IF IsSpace(Head(s))
         THEN (IF inRun THEN <<>> ELSE <<"_">>) \o ReplaceRuns(Tail(s), TRUE)
         ELSE <<Head(s)>> \o ReplaceRuns(Tail(s), FALSE)

\* Utils.replaceSpaces
replaceSpaces(s) == ReplaceRuns(s, FALSE)

\* Utils.sanitize
sanitize(s) == ReplaceRuns(s, FALSE)

Digits == <<"0", "1", "2", "3", "4", "5", "6", "7", "8", "9">>
IsDigit(ch) == \E d \in 1..10 : Digits[d] = ch
DigitVal(ch) == (CHOOSE d \in 1..10 : Digits[d] = ch) - 1

RECURSIVE NatToChars(_)
NatToChars(n) ==
    IF n < 10 THEN <<Digits[n + 1]>>
    ELSE NatToChars(n \div 10) \o <<Digits[(n % 10) + 1]>>

RECURSIVE CharsToNat(_, _)
CharsToNat(s, acc) ==
    IF s = <<>> THEN acc ELSE CharsToNat(Tail(s), acc * 10 + DigitVal(Head(s)))

\* '' + v : the text a value contributes to a concatenated key
ToStr(v) ==
    CASE v.t \in {"none", "undef"} -> <<"undefined">>
      [] v.t = "null" -> <<"null">>
      [] v.t = "nan" -> <<"NaN">>
      [] v.t = "circ" -> <<"[object Object]">>
      [] v.t = "num" ->
            IF v.n < 0 THEN <<"-">> \o NatToChars(0 - v.n) ELSE NatToChars(v.n)
      [] OTHER -> v.s

\* +v : the unary plus of _set, as a number value or NaN
ToNumber(v) ==
    CASE v.t = "num" -> v
      [] v.t = "null" -> Num(0)
      [] v.t \in {"str", "arr"} ->
            IF v.s = <<>> THEN Num(0)
            ELSE IF \A i \in 1..Len(v.s) : IsDigit(v.s[i])
                 THEN Num(CharsToNat(v.s, 0))
            ELSE IF Head(v.s) = "-" /\ Len(v.s) > 1
                    /\ \A i \in 2..Len(v.s) : IsDigit(v.s[i])
                 THEN Num(0 - CharsToNat(Tail(v.s), 0))
            ELSE NaN
      [] OTHER -> NaN

\* JSON.stringify throws on a circular structure
CanStringify(obj) == \A a \in Attrs : obj[a].t # "circ"

\* What JSON.stringify writes for one attribute: an undefined value is left
\* out, NaN becomes null, a date becomes its text
JsonValue(v) ==
    CASE v.t = "undef" -> None
      [] v.t = "nan" -> Null
      [] v.t = "date" -> Str(v.s)
      [] OTHER -> v

\* JSON.stringify(obj): the stored text, kept as the document it denotes
JSONstringify(obj) == [json |-> [a \in Attrs |-> JsonValue(obj[a])]]

\* JSON.parse(text)
JSONparse(text) == text.json

-----------------------------------------------------------------------------
(* Utils (lib/utils.js) *)

\* Utils.present: the value is neither undefined, null nor empty
present(v) == ~(v.t \in {"none", "undef", "null"}) /\ ~(v.t = "str" /\ v.s = <<>>)

\* Utils.count: the number of keys of an object
count(obj) == Cardinality({a \in Attrs : obj[a].t # "none"})

\* Array.isArray
isArray(v) == v.t = "arr"

\* Object.prototype.hasOwnProperty
hasOwnProperty(obj, a) == a \in Attrs /\ obj[a].t # "none"

-----------------------------------------------------------------------------
(* Schema (lib/database/schema.js) *)

\* One attribute of a schema description; type "" when it is not described
AttrDef(type, pk) == [type |-> type, primaryKey |-> pk]
NoAttr == AttrDef("", FALSE)

EmptyDef == [a \in Attrs |-> NoAttr]
FullDef == [a \in Attrs |->
    CASE a = "id" -> AttrDef("string", TRUE)
      [] a = "name" -> AttrDef("string", FALSE)
      [] a = "at" -> AttrDef("date", FALSE)
      [] OTHER -> NoAttr]
Definitions == {EmptyDef, FullDef}

\* The attribute a definition marks as its primary key, "" when it has none
PrimaryIn(def) ==
    IF \E a \in Attrs : def[a].primaryKey
    THEN CHOOSE a \in Attrs : def[a].primaryKey
    ELSE ""

\* The characters of an attribute name
AttrChars(a) ==
    CASE a = "id" -> <<"i", "d">>
      [] a = "name" -> <<"n", "a", "m", "e">>
      [] a = "at" -> <<"a", "t">>
      [] a = "_ttl" -> <<"_", "t", "t", "l">>
      [] OTHER -> <<"undefined">>

\* schema.recordKey(name, primary, value)
recordKey(name, primary, v) ==
    <<"waterline", ":">> \o toLowerCase(name) \o <<":">> \o AttrChars(primary)
        \o <<":">> \o ToStr(v)

\* What schema.parse makes of one value of a described type
Coerce(type, v) == IF type = "date" /\ v.t = "str" THEN Date(v.s) ELSE v

\* schema.parse(name, values) against the registry (defs, reg): the registered
\* type coercions; values of a null read stay null
schemaParse(defs, reg, name, obj) ==
    IF toLowerCase(name) \in reg
    THEN [a \in Attrs |-> Coerce(defs[toLowerCase(name)][a].type, obj[a])]
    ELSE obj

-----------------------------------------------------------------------------
(* The key-value connection *)

Entry(k, text, ttl) == [key |-> k, val |-> text, ttl |-> ttl]

Has(st, k) == \E e \in st : e.key = k
EntryAt(st, k) == CHOOSE e \in st : e.key = k

\* SET key text / SETEX key ttl text (ttl 0: the key does not expire)
Written(st, k, text, ttl) == {e \in st : e.key # k} \cup {Entry(k, text, ttl)}

\* DEL key
Deleted(st, k) == {e \in st : e.key # k}

IsPrefix(p, s) == Len(p) <= Len(s) /\ SubSeq(s, 1, Len(p)) = p

\* KEYS prefix* (the prefix holds no glob character)
KeysMatching(st, prefix) == {e.key : e \in {x \in st : IsPrefix(prefix, x.key)}}

\* One request a call issued to the connection
Req(cmd, k, ttl) == [cmd |-> cmd, key |-> k, ttl |-> ttl]

-----------------------------------------------------------------------------
(* Calls *)

NoCrit == [hasWhere |-> FALSE, where |-> EmptyObj]
Where(obj) == [hasWhere |-> TRUE, where |-> obj]
WherePk(v) == Where(Obj(v, None, None, None))

\* One invocation of a call's completion callback
Cb(err, kind, recs, desc) == [err |-> err, kind |-> kind, recs |-> recs, desc |-> desc]
CbErr(err) == Cb(err, "none", <<>>, EmptyDef)
CbList(recs) == Cb("", "list", recs, EmptyDef)
CbRecord(rec) == Cb("", "record", <<rec>>, EmptyDef)
CbRaw(text) == Cb("", "raw", <<text.json>>, EmptyDef)
CbNull == Cb("", "null", <<>>, EmptyDef)
CbNothing == Cb("", "none", <<>>, EmptyDef)
CbDesc(desc) == Cb("", "desc", <<>>, desc)

IdleCall == [op |-> "none", coll |-> <<>>, crit |-> NoCrit, data |-> EmptyObj,
             pc |-> "idle", key |-> <<>>, item |-> EmptyObj, pending |-> {},
             failed |-> FALSE, cbs |-> <<>>, reqs |-> <<>>]

NewCall(op, coll, crit, data) ==
    [IdleCall EXCEPT !.op = op, !.coll = coll, !.crit = crit, !.data = data]

\* The call invokes its callback and is over
Complete(call, cb) == [call EXCEPT !.pc = "done", !.cbs = Append(@, cb)]

\* The call throws to its caller: it is over and its callback is never invoked
Throw(call) == [call EXCEPT !.pc = "thrown"]

\* The call issues a request and waits for its reply at pc
Issue(call, pc, req) == [call EXCEPT !.pc = pc, !.reqs = Append(@, req)]

Idle(c) == calls[c].pc = "idle"
At(c, op, pc) == calls[c].op = op /\ calls[c].pc = pc

primary(coll) == primaryOf[toLowerCase(coll)]
HasPrimary(coll) == primary(coll) # ""

-----------------------------------------------------------------------------
(* _set *)

\* if (!ttl): the sentinel -1 is not recognised
PlainWrite_NoSentinel(ttl) == ttl.t = "nan" \/ ttl.n = 0

\* if (!ttl || ttl === -1): the write does not expire
PlainWrite(ttl) == ttl.t = "nan" \/ ttl.n = 0 \/ ttl.n = -1

\* The request _set issues for data that can be serialised
SetRequest(k, data) ==
    LET ttl == ToNumber(GetAttr(data, "_ttl"))
    IN  IF PlainWrite(ttl) THEN Req("set", k, 0) ELSE Req("setex", k, ttl.n)

\* Redis refuses a SETEX whose expiry is not positive
WriteAccepted(req) == req.cmd = "set" \/ req.ttl > 0

\* _set(recordKey, data, cb) up to the request: the call reports the
\* serialisation error, or issues the write and waits for its reply
SetCall(call, k, data) ==
    IF CanStringify(data)
    THEN Issue([call EXCEPT !.key = k, !.item = data], "set", SetRequest(k, data))
    ELSE Complete(call, CbErr("SerializationFailure"))

\* The store once the write a call waits for is done
AfterWrite(st, call) ==
    Written(st, call.key, JSONstringify(call.item),
            call.reqs[Len(call.reqs)].ttl)

-----------------------------------------------------------------------------
(* find *)

\* The guard without its count of the conditions
Resolvable_NoCount(crit, pk) ==
    /\ crit.hasWhere
    /\ hasOwnProperty(crit.where, pk)
    /\ ~isArray(crit.where[pk])
    /\ present(crit.where[pk])

\* The guard of find and destroy: one condition, on the primary key, with a
\* present value that is not an array
Resolvable(crit, pk) ==
    /\ crit.hasWhere
    /\ hasOwnProperty(crit.where, pk)
    /\ ~isArray(crit.where[pk])
    /\ present(crit.where[pk])
    /\ count(crit.where) = 1

\* find's callback for a successful read of key k
FindResult(st, defs, reg, name, k) ==
    IF ~Has(st, k) THEN CbList(<<>>)
    ELSE CbList(<<schemaParse(defs, reg, name, JSONparse(EntryAt(st, k).val))>>)

\* The key find, update and destroy read for a resolvable criteria
FindKey(coll, crit) ==
    recordKey(toLowerCase(coll), primary(coll), crit.where[primary(coll)])

\* What find(coll, crit) calls back with when the store holds st and answers
FindOutcome(st, coll, crit) ==
    IF Resolvable(crit, primary(coll))
    THEN FindResult(st, schemaDefs, registered, toLowerCase(coll), FindKey(coll, crit))
    ELSE CbErr("InvalidCriteria")

FindStart(c, coll, crit) ==
    /\ Idle(c)
    /\ HasPrimary(coll)
    /\ LET call == NewCall("find", coll, crit, EmptyObj)
           name == toLowerCase(coll)
           pk == primary(coll)
       IN  calls' = [calls EXCEPT ![c] =
              IF Resolvable(crit, pk)
              THEN LET k == recordKey(name, pk, crit.where[pk])
                   IN  Issue([call EXCEPT !.key = k], "get", Req("get", k, 0))
              ELSE Complete(call, CbErr("InvalidCriteria"))]
    /\ UNCHANGED <<store, schemaDefs, registered, primaryOf, definedCollections>>

FindGetReply(c) ==
    /\ At(c, "find", "get")
    /\ \E ok \in BOOLEAN :
         calls' = [calls EXCEPT ![c] =
            IF ~ok THEN Complete(@, CbErr("StoreError"))
            ELSE Complete(@, FindResult(store, schemaDefs, registered,
                                        toLowerCase(calls[c].coll), calls[c].key))]
    /\ UNCHANGED <<store, schemaDefs, registered, primaryOf, definedCollections>>

-----------------------------------------------------------------------------
(* create *)

\* The key create writes the record under
CreateKey(coll, data) ==
    sanitize(recordKey(replaceSpaces(toLowerCase(coll)), primary(coll),
                       GetAttr(data, primary(coll))))

CreateStart(c, coll, data) ==
    /\ Idle(c)
    /\ HasPrimary(coll)
    /\ calls' = [calls EXCEPT ![c] =
          SetCall(NewCall("create", coll, NoCrit, data), CreateKey(coll, data), data)]
    /\ UNCHANGED <<store, schemaDefs, registered, primaryOf, definedCollections>>

CreateSetReply(c) ==
    /\ At(c, "create", "set")
    /\ \E ok \in BOOLEAN :
         IF ok /\ WriteAccepted(calls[c].reqs[Len(calls[c].reqs)])
         THEN /\ store' = AfterWrite(store, calls[c])
              /\ calls' = [calls EXCEPT ![c] =
                              Issue(@, "get", Req("get", calls[c].key, 0))]
         ELSE /\ store' = store
              /\ calls' = [calls EXCEPT ![c] = Complete(@, CbErr("StoreError"))]
    /\ UNCHANGED <<schemaDefs, registered, primaryOf, definedCollections>>

\* create's callback for a successful read of key k
CreateResult(st, defs, reg, name, k) ==
    IF ~Has(st, k) THEN CbNull
    ELSE CbRecord(schemaParse(defs, reg, name, JSONparse(EntryAt(st, k).val)))

\* create calling back with its input instead of what it read
CreateGetReply_EchoInput(c) ==
    /\ At(c, "create", "get")
    /\ \E ok \in BOOLEAN :
         calls' = [calls EXCEPT ![c] =
            IF ~ok THEN Complete(@, CbErr("StoreError"))
            ELSE Complete(@, CbRecord(calls[c].data))]
    /\ UNCHANGED <<store, schemaDefs, registered, primaryOf, definedCollections>>

CreateGetReply(c) ==
    /\ At(c, "create", "get")
    /\ \E ok \in BOOLEAN :
         calls' = [calls EXCEPT ![c] =
            IF ~ok THEN Complete(@, CbErr("StoreError"))
            ELSE Complete(@, CreateResult(store, schemaDefs, registered,
                     replaceSpaces(toLowerCase(calls[c].coll)), calls[c].key))]
    /\ UNCHANGED <<store, schemaDefs, registered, primaryOf, definedCollections>>

-----------------------------------------------------------------------------
(* update *)

\* a !== b: two arrays, objects or dates are never the same reference here
StrictEq(a, b) == a = b /\ a.t \in {"none", "undef", "null", "str", "num"}

\* values[primary] is present and is not criteria.where[primary]; reading
\* criteria.where[primary] throws a TypeError when criteria has no where
PrimaryKeyConflict(crit, values, pk) ==
    present(GetAttr(values, pk)) /\ ~StrictEq(GetAttr(values, pk), GetAttr(crit.where, pk))

\* delete values[primary]
DeletePrimary(values, pk) == [a \in Attrs |-> IF a = pk THEN None ELSE values[a]]

\* updateRecord writing the values alone instead of the merged record
extend_ValuesOnly(item, values) == values

\* _.extend(item, values)
extend(item, values) ==
    [a \in Attrs |-> IF values[a].t # "none" THEN values[a] ELSE item[a]]

\* The key updateRecord writes an item under
UpdateKey(name, pk, item) == recordKey(name, pk, GetAttr(item, pk))

UpdateStart(c, coll, crit, values) ==
    /\ Idle(c)
    /\ HasPrimary(coll)
    /\ LET name == toLowerCase(coll)
           pk == primary(coll)
           call == NewCall("update", coll, crit, DeletePrimary(values, pk))
       IN  calls' = [calls EXCEPT ![c] =
              IF present(GetAttr(values, pk)) /\ ~crit.hasWhere
              THEN Throw(NewCall("update", coll, crit, values))
              ELSE IF PrimaryKeyConflict(crit, values, pk)
              THEN Complete(NewCall("update", coll, crit, values),
                            CbErr("PrimaryKeyUpdate"))
              ELSE IF Resolvable(crit, pk)
              THEN LET k == recordKey(name, pk, crit.where[pk])
                   IN  Issue([call EXCEPT !.key = k], "get", Req("get", k, 0))
              ELSE Complete(call, CbErr("InvalidCriteria"))]
    /\ UNCHANGED <<store, schemaDefs, registered, primaryOf, definedCollections>>

\* update writing its values when it found no record
UpdateGetReply_Upsert(c) ==
    /\ At(c, "update", "get")
    /\ \E ok \in BOOLEAN :
         LET name == toLowerCase(calls[c].coll)
             found == FindResult(store, schemaDefs, registered, name, calls[c].key)
         IN  calls' = [calls EXCEPT ![c] =
                IF ~ok THEN Complete(@, CbErr("StoreError"))
                ELSE LET item == IF found.recs = <<>> THEN EmptyObj ELSE found.recs[1]
                     IN  SetCall(@, calls[c].key, extend(item, calls[c].data))]
    /\ UNCHANGED <<store, schemaDefs, registered, primaryOf, definedCollections>>

UpdateGetReply(c) ==
    /\ At(c, "update", "get")
    /\ \E ok \in BOOLEAN :
         LET name == toLowerCase(calls[c].coll)
             found == FindResult(store, schemaDefs, registered, name, calls[c].key)
         IN  calls' = [calls EXCEPT ![c] =
                IF ~ok THEN Complete(@, CbErr("StoreError"))
                ELSE IF found.recs = <<>> THEN Complete(@, CbList(<<>>))
                ELSE LET item == found.recs[1]
                     IN  SetCall(@, UpdateKey(name, primary(calls[c].coll), item),
                                 extend(item, calls[c].data))]
    /\ UNCHANGED <<store, schemaDefs, registered, primaryOf, definedCollections>>

\* updateRecord refusing its write when the record it resolved is gone
UpdateSetReply_IfPresent(c) ==
    /\ At(c, "update", "set")
    /\ \E ok \in BOOLEAN :
         IF ~Has(store, calls[c].key)
         THEN /\ store' = store
              /\ calls' = [calls EXCEPT ![c] = Complete(@, CbErr("RecordGone"))]
         ELSE IF ok /\ WriteAccepted(calls[c].reqs[Len(calls[c].reqs)])
         THEN /\ store' = AfterWrite(store, calls[c])
              /\ calls' = [calls EXCEPT ![c] = Complete(@, CbList(<<calls[c].item>>))]
         ELSE /\ store' = store
              /\ calls' = [calls EXCEPT ![c] = Complete(@, CbErr("StoreError"))]
    /\ UNCHANGED <<schemaDefs, registered, primaryOf, definedCollections>>

UpdateSetReply(c) ==
    /\ At(c, "update", "set")
    /\ \E ok \in BOOLEAN :
         IF ok /\ WriteAccepted(calls[c].reqs[Len(calls[c].reqs)])
         THEN /\ store' = AfterWrite(store, calls[c])
              /\ calls' = [calls EXCEPT ![c] = Complete(@, CbList(<<calls[c].item>>))]
         ELSE /\ store' = store
              /\ calls' = [calls EXCEPT ![c] = Complete(@, CbErr("StoreError"))]
    /\ UNCHANGED <<schemaDefs, registered, primaryOf, definedCollections>>

-----------------------------------------------------------------------------
(* drop and destroy *)

\* A set of keys as the list a reply delivers them in
RECURSIVE KeyList(_)
KeyList(ks) ==
    IF ks = {} THEN <<>>
    ELSE LET k == CHOOSE x \in ks : TRUE IN <<k>> \o KeyList(ks \ {k})

DelReqs(kl) == [i \in 1..Len(kl) |-> Req("del", kl[i], 0)]

\* drop scanning every key of the store, whatever its collection
DropCall_NoCollection(op, coll, crit) ==
    LET prefix == <<"waterline", ":">>
    IN  Issue([NewCall(op, coll, crit, EmptyObj) EXCEPT !.key = prefix],
              "keys", Req("keys", prefix, 0))

\* drop(collectionName, relations, cb) up to the key scan; op is the public
\* operation the call entered through
DropCall(op, coll, crit) ==
    LET prefix == recordKey(toLowerCase(coll), primary(coll), Str(<<>>))
    IN  Issue([NewCall(op, coll, crit, EmptyObj) EXCEPT !.key = prefix],
              "keys", Req("keys", prefix, 0))

DropStart(c, coll) ==
    /\ Idle(c)
    /\ HasPrimary(coll)
    /\ calls' = [calls EXCEPT ![c] = DropCall("drop", coll, NoCrit)]
    /\ UNCHANGED <<store, schemaDefs, registered, primaryOf, definedCollections>>

\* function (err) { if (err) return cb(err); cb(); }
DropCallbacks_Once(cbs, err) ==
    Append(cbs, IF err THEN CbErr("StoreError") ELSE CbNothing)

\* function (err) { if (err) cb(err); cb(); }
DropCallbacks(cbs, err) ==
    IF err THEN cbs \o <<CbErr("StoreError"), CbNothing>> ELSE Append(cbs, CbNothing)

DropKeysReply(c) ==
    /\ calls[c].op \in {"drop", "destroy"}
    /\ calls[c].pc = "keys"
    /\ \E ok \in BOOLEAN :
         LET ks == KeysMatching(store, calls[c].key)
         IN  calls' = [calls EXCEPT ![c] =
                IF ~ok
                THEN [@ EXCEPT !.pc = "done", !.failed = TRUE,
                               !.cbs = DropCallbacks(@, TRUE)]
                ELSE IF ks = {}
                THEN [@ EXCEPT !.pc = "done", !.cbs = DropCallbacks(@, FALSE)]
                ELSE [@ EXCEPT !.pc = "dels", !.pending = ks,
                               !.reqs = @ \o DelReqs(KeyList(ks))]]
    /\ UNCHANGED <<store, schemaDefs, registered, primaryOf, definedCollections>>

\* The reply to one of the deletions async.each issued
DropDelReply(c, k) ==
    /\ calls[c].op \in {"drop", "destroy"}
    /\ calls[c].pc = "dels"
    /\ k \in calls[c].pending
    /\ \E ok \in BOOLEAN :
         LET left == calls[c].pending \ {k}
             first == ~ok /\ ~calls[c].failed
             last == left = {} /\ ok /\ ~calls[c].failed
         IN  /\ store' = IF ok THEN Deleted(store, k) ELSE store
             /\ calls' = [calls EXCEPT ![c] =
                   [@ EXCEPT !.pending = left,
                             !.failed = @ \/ ~ok,
                             !.pc = IF left = {} THEN "done" ELSE "dels",
                             !.cbs = IF first THEN DropCallbacks(@, TRUE)
                                     ELSE IF last THEN DropCallbacks(@, FALSE)
                                     ELSE @]]
    /\ UNCHANGED <<schemaDefs, registered, primaryOf, definedCollections>>

DestroyStart(c, coll, crit) ==
    /\ Idle(c)
    /\ HasPrimary(coll)
    /\ crit.hasWhere
    /\ LET name == toLowerCase(coll)
           pk == primary(coll)
           call == NewCall("destroy", coll, crit, EmptyObj)
       IN  calls' = [calls EXCEPT ![c] =
              IF Resolvable(crit, pk)
              THEN LET k == recordKey(name, pk, crit.where[pk])
                   IN  Issue([call EXCEPT !.key = k], "get", Req("get", k, 0))
              ELSE IF count(crit.where) = 0
              THEN DropCall("destroy", coll, crit)
              ELSE Complete(call, CbErr("InvalidCriteria"))]
    /\ UNCHANGED <<store, schemaDefs, registered, primaryOf, definedCollections>>

\* destroy without its check for a missing record
DestroyGetReply_NoAbsentCheck(c) ==
    /\ At(c, "destroy", "get")
    /\ \E ok \in BOOLEAN :
         calls' = [calls EXCEPT ![c] =
            IF ~ok THEN Complete(@, CbErr("StoreError"))
            ELSE Issue([@ EXCEPT !.item =
                          IF Has(store, calls[c].key)
                          THEN JSONparse(EntryAt(store, calls[c].key).val)
                          ELSE EmptyObj],
                       "del", Req("del", calls[c].key, 0))]
    /\ UNCHANGED <<store, schemaDefs, registered, primaryOf, definedCollections>>

DestroyGetReply(c) ==
    /\ At(c, "destroy", "get")
    /\ \E ok \in BOOLEAN :
         calls' = [calls EXCEPT ![c] =
            IF ~ok THEN Complete(@, CbErr("StoreError"))
            ELSE IF ~Has(store, calls[c].key) THEN Complete(@, CbList(<<>>))
            ELSE Issue([@ EXCEPT !.item = JSONparse(EntryAt(store, calls[c].key).val)],
                       "del", Req("del", calls[c].key, 0))]
    /\ UNCHANGED <<store, schemaDefs, registered, primaryOf, definedCollections>>

DestroyDelReply(c) ==
    /\ At(c, "destroy", "del")
    /\ \E ok \in BOOLEAN :
         IF ok
         THEN /\ store' = Deleted(store, calls[c].key)
              /\ calls' = [calls EXCEPT ![c] = Complete(@, CbRaw([json |-> calls[c].item]))]
         ELSE /\ store' = store
              /\ calls' = [calls EXCEPT ![c] = Complete(@, CbErr("StoreError"))]
    /\ UNCHANGED <<schemaDefs, registered, primaryOf, definedCollections>>

-----------------------------------------------------------------------------
(* configure, define, describe *)

\* schema.registerCollection(name, definition), on each registry variable
RegisteredDefs(defs, name, def) == [defs EXCEPT ![name] = def]
RegisteredNames(reg, name) == reg \cup {name}
RegisteredPrimary(prim, name, def) == [prim EXCEPT ![name] = PrimaryIn(def)]

Configure(coll, def) ==
    /\ \A c \in DOMAIN calls : Idle(c)
    /\ schemaDefs' = RegisteredDefs(schemaDefs, toLowerCase(coll), def)
    /\ registered' = RegisteredNames(registered, toLowerCase(coll))
    /\ primaryOf' = RegisteredPrimary(primaryOf, toLowerCase(coll), def)
    /\ UNCHANGED <<store, definedCollections, calls>>

\* The names definedCollections holds after define(collectionName, ...)
DefinedAfter(defined, coll) == defined \cup {coll}

Define(c, coll, def) ==
    /\ \A d \in DOMAIN calls : Idle(d)
    /\ schemaDefs' = RegisteredDefs(schemaDefs, toLowerCase(coll), def)
    /\ registered' = RegisteredNames(registered, toLowerCase(coll))
    /\ primaryOf' = RegisteredPrimary(primaryOf, toLowerCase(coll), def)
    /\ definedCollections' = DefinedAfter(definedCollections, coll)
    /\ calls' = [calls EXCEPT ![c] =
                    Complete(NewCall("define", coll, NoCrit, EmptyObj), CbNothing)]
    /\ UNCHANGED store

\* Object.keys(desc).length === 0
IsEmptyDesc(desc) == \A a \in Attrs : desc[a] = NoAttr

\* describe's callback
DescribeResult(defs, reg, defined, coll) ==
    IF toLowerCase(coll) \notin reg THEN CbErr("collectionNotRegistered")
    ELSE IF IsEmptyDesc(defs[toLowerCase(coll)]) THEN CbNull
    ELSE IF coll \notin defined THEN CbNull
    ELSE CbDesc(defs[toLowerCase(coll)])

Describe(c, coll) ==
    /\ Idle(c)
    /\ calls' = [calls EXCEPT ![c] =
          Complete(NewCall("describe", coll, NoCrit, EmptyObj),
                   DescribeResult(schemaDefs, registered, definedCollections, coll))]
    /\ UNCHANGED <<store, schemaDefs, registered, primaryOf, definedCollections>>

-----------------------------------------------------------------------------
(* The caller and the store's clock *)

\* The caller has taken the result; the slot is free for the next call
Return(c) ==
    /\ calls[c].pc \in {"done", "thrown"}
    /\ calls' = [calls EXCEPT ![c] = IdleCall]
    /\ UNCHANGED <<store, schemaDefs, registered, primaryOf, definedCollections>>

\* A key written with an expiry runs out
Expire(k) ==
    /\ \E e \in store : e.key = k /\ e.ttl > 0
    /\ store' = Deleted(store, k)
    /\ UNCHANGED <<schemaDefs, registered, primaryOf, definedCollections, calls>>

-----------------------------------------------------------------------------
(* The calls the specifications make *)

u == <<"u">>
U == <<"U">>
a_b == <<"a", " ", "b">>
Names == {u, U, a_b}

\* Every name the registry is asked about: lower-cased, and as create rewrites it
LowerNames == {toLowerCase(n) : n \in Names}
                 \cup {replaceSpaces(toLowerCase(n)) : n \in Names}

k == Str(<<"k">>)
spaced == Str(<<"a", " ", "b">>)
underscored == Str(<<"a", "_", "b">>)
x == Str(<<"x">>)
y == Str(<<"y">>)
pair == Arr(<<"k", ",", "k">>)
day == Date(<<"d">>)

CreateInputs ==
    { <<u, Obj(k, x, day, None)>>,
      <<U, Obj(k, x, day, None)>>,
      <<u, Obj(k, y, None, Num(5))>>,
      <<u, Obj(spaced, x, None, None)>>,
      <<u, Obj(None, x, None, None)>>,
      <<u, Obj(pair, None, None, None)>>,
      <<u, Obj(k, Circ, None, None)>>,
      <<a_b, Obj(k, x, None, None)>> }

BadCriteria ==
    { NoCrit, Where(EmptyObj), Where(Obj(k, x, None, None)),
      Where(Obj(None, x, None, None)), WherePk(pair), WherePk(Null),
      WherePk(Str(<<>>)) }

FindInputs ==
    ({u} \X ({WherePk(k), WherePk(spaced), WherePk(underscored)} \cup BadCriteria))
      \cup {<<U, WherePk(k)>>, <<a_b, WherePk(k)>>}

UpdateInputs ==
    { <<u, WherePk(k), Obj(None, y, None, None)>>,
      <<u, WherePk(k), Obj(k, y, None, None)>>,
      <<u, WherePk(k), Obj(underscored, y, None, None)>>,
      <<u, WherePk(k), Obj(None, None, None, Num(0))>>,
      <<u, WherePk(k), Obj(None, Undef, None, None)>>,
      <<u, WherePk(k), Obj(None, Circ, None, None)>>,
      <<u, WherePk(underscored), Obj(None, y, None, None)>>,
      <<u, WherePk(spaced), Obj(None, y, None, None)>>,
      <<u, Where(EmptyObj), Obj(None, y, None, None)>>,
      <<u, NoCrit, Obj(None, y, None, None)>>,
      <<u, NoCrit, Obj(k, y, None, None)>>,
      <<a_b, WherePk(k), Obj(None, y, None, None)>> }

DestroyInputs ==
    ({u} \X ({WherePk(k), WherePk(underscored)} \cup (BadCriteria \ {NoCrit})))
      \cup {<<U, Where(EmptyObj)>>, <<a_b, Where(EmptyObj)>>, <<a_b, WherePk(k)>>}

-----------------------------------------------------------------------------
(* Specifications *)

\* new Database(connection): nothing registered, nothing defined
InitRegistry ==
    /\ schemaDefs = [n \in LowerNames |-> EmptyDef]
    /\ registered = {}
    /\ primaryOf = [n \in LowerNames |-> ""]
    /\ definedCollections = {}

\* The registry after define(u, FullDef) and define(a_b, FullDef)
InitDefined ==
    /\ schemaDefs = RegisteredDefs(RegisteredDefs([n \in LowerNames |-> EmptyDef],
                                       u, FullDef), a_b, FullDef)
    /\ registered = RegisteredNames(RegisteredNames({}, u), a_b)
    /\ primaryOf = RegisteredPrimary(RegisteredPrimary([n \in LowerNames |-> ""],
                                       u, FullDef), a_b, FullDef)
    /\ definedCollections = DefinedAfter(DefinedAfter({}, u), a_b)

Init ==
    /\ InitDefined
    /\ store = {}
    /\ calls = [c \in {"c1"} |-> IdleCall]

AllIdle == \A c \in DOMAIN calls : Idle(c)

\* The reply to any one of the deletions a drop waits for
DropDelStep(c) == \E key \in calls[c].pending : DropDelReply(c, key)

\* Between calls, a key with an expiry may run out
ExpireStep == AllIdle /\ \E key \in {e.key : e \in store} : Expire(key)

FindCall(c) == \E in \in FindInputs : FindStart(c, in[1], in[2])
CreateCall(c) == \E in \in CreateInputs : CreateStart(c, in[1], in[2])
UpdateCall(c) == \E in \in UpdateInputs : UpdateStart(c, in[1], in[2], in[3])
DestroyCall(c) == \E in \in DestroyInputs : DestroyStart(c, in[1], in[2])
DropCollection(c) == \E n \in Names : DropStart(c, n)
DescribeCall(c) == \E n \in Names : Describe(c, n)

\* One caller, one call at a time, on the collections defined at start
Next ==
    \/ FindCall("c1")
    \/ FindGetReply("c1")
    \/ CreateCall("c1")
    \/ CreateSetReply("c1")
    \/ CreateGetReply("c1")
    \/ UpdateCall("c1")
    \/ UpdateGetReply("c1")
    \/ UpdateSetReply("c1")
    \/ DestroyCall("c1")
    \/ DestroyGetReply("c1")
    \/ DestroyDelReply("c1")
    \/ DropCollection("c1")
    \/ DropKeysReply("c1")
    \/ DropDelStep("c1")
    \/ DescribeCall("c1")
    \/ Return("c1")
    \/ ExpireStep

Spec == Init /\ [][Next]_vars

-----------------------------------------------------------------------------
(* The registry on its own: configure, define and describe from a new Database *)

InitSchema ==
    /\ InitRegistry
    /\ store = {}
    /\ calls = [c \in {"c1"} |-> IdleCall]

ConfigureCall == \E n \in Names, def \in Definitions : Configure(n, def)
DefineCall(c) == \E n \in Names, def \in Definitions : Define(c, n, def)

NextSchema ==
    \/ ConfigureCall
    \/ DefineCall("c1")
    \/ DescribeCall("c1")
    \/ Return("c1")

SpecSchema == InitSchema /\ [][NextSchema]_vars

-----------------------------------------------------------------------------
(* _set on its own, over the values _ttl can take *)

\* The largest magnitude of a numeric _ttl the specification tries
MaxTtl == 2

TtlValues ==
    {None, Undef, Null, NaN, pair, Str(<<>>), Str(<<"x">>), Str(<<"5">>),
     Str(<<"-", "1">>)} \cup {Num(n) : n \in (0 - MaxTtl)..MaxTtl}

SetInputs == {Obj(k, nm, None, t) : nm \in {x, Circ}, t \in TtlValues}

SetKeys == {recordKey(u, "id", k), recordKey(u, "id", underscored)}

\* this._set(recordKey, data, cb)
SetStart(c, key, data) ==
    /\ Idle(c)
    /\ calls' = [calls EXCEPT ![c] = SetCall(NewCall("_set", <<>>, NoCrit, data), key, data)]
    /\ UNCHANGED <<store, schemaDefs, registered, primaryOf, definedCollections>>

SetReply(c) ==
    /\ At(c, "_set", "set")
    /\ \E ok \in BOOLEAN :
         IF ok /\ WriteAccepted(calls[c].reqs[Len(calls[c].reqs)])
         THEN /\ store' = AfterWrite(store, calls[c])
              /\ calls' = [calls EXCEPT ![c] = Complete(@, CbNothing)]
         ELSE /\ store' = store
              /\ calls' = [calls EXCEPT ![c] = Complete(@, CbErr("StoreError"))]
    /\ UNCHANGED <<schemaDefs, registered, primaryOf, definedCollections>>

SetInvoke(c) == \E key \in SetKeys, data \in SetInputs : SetStart(c, key, data)

NextSet ==
    \/ SetInvoke("c1")
    \/ SetReply("c1")
    \/ Return("c1")
    \/ ExpireStep

SpecSet == Init /\ [][NextSet]_vars

-----------------------------------------------------------------------------
(* Two callers at once on one record: calls interleave at every reply *)

later == Date(<<"e">>)

ConcCreateInputs ==
    { <<u, Obj(k, x, day, None)>>,
      <<u, Obj(k, y, None, Num(5))>>,
      <<u, Obj(spaced, x, None, None)>> }

ConcUpdateInputs ==
    { <<u, WherePk(k), Obj(None, y, None, None)>>,
      <<u, WherePk(k), Obj(None, None, later, None)>> }

InitConc ==
    /\ InitDefined
    /\ store = {}
    /\ calls = [c \in {"c1", "c2"} |-> IdleCall]

ConcFind == \E c \in DOMAIN calls : FindStart(c, u, WherePk(k))
ConcCreate ==
    \E c \in DOMAIN calls, in \in ConcCreateInputs : CreateStart(c, in[1], in[2])
ConcUpdate ==
    \E c \in DOMAIN calls, in \in ConcUpdateInputs :
        UpdateStart(c, in[1], in[2], in[3])
ConcDestroy == \E c \in DOMAIN calls : DestroyStart(c, u, WherePk(k))

\* The store answers the request some call waits for
ConcFindGetReply == \E c \in DOMAIN calls : FindGetReply(c)
ConcCreateSetReply == \E c \in DOMAIN calls : CreateSetReply(c)
ConcCreateGetReply == \E c \in DOMAIN calls : CreateGetReply(c)
ConcUpdateGetReply == \E c \in DOMAIN calls : UpdateGetReply(c)
ConcUpdateSetReply == \E c \in DOMAIN calls : UpdateSetReply(c)
ConcDestroyGetReply == \E c \in DOMAIN calls : DestroyGetReply(c)
ConcDestroyDelReply == \E c \in DOMAIN calls : DestroyDelReply(c)
ConcReturn == \E c \in DOMAIN calls : Return(c)

\* A key with an expiry may run out at any moment
ExpireAny == \E key \in {e.key : e \in store} : Expire(key)

NextConc ==
    \/ ConcFind
    \/ ConcCreate
    \/ ConcUpdate
    \/ ConcDestroy
    \/ ConcFindGetReply
    \/ ConcCreateSetReply
    \/ ConcCreateGetReply
    \/ ConcUpdateGetReply
    \/ ConcUpdateSetReply
    \/ ConcDestroyGetReply
    \/ ConcDestroyDelReply
    \/ ConcReturn
    \/ ExpireAny

SpecConc == InitConc /\ [][NextConc]_vars

-----------------------------------------------------------------------------
(* Four callers, one call each, on one record: one creates it, two update *)
(* different attributes of it, one destroys it                            *)

RaceRecord == Obj(k, x, None, None)
RaceName == Obj(None, y, None, None)
RaceDate == Obj(None, None, later, None)

InitRace ==
    /\ InitDefined
    /\ store = {}
    /\ calls = [c \in {"c1", "c2", "c3", "c4"} |-> IdleCall]

RaceCreate == CreateStart("c1", u, RaceRecord)
RaceUpdateName == UpdateStart("c2", u, WherePk(k), RaceName)
RaceUpdateDate == UpdateStart("c3", u, WherePk(k), RaceDate)
RaceDestroy == DestroyStart("c4", u, WherePk(k))

NextRace ==
    \/ RaceCreate
    \/ CreateSetReply("c1")
    \/ CreateGetReply("c1")
    \/ RaceUpdateName
    \/ RaceUpdateDate
    \/ \E c \in {"c2", "c3"} : UpdateGetReply(c)
    \/ \E c \in {"c2", "c3"} : UpdateSetReply(c)
    \/ RaceDestroy
    \/ DestroyGetReply("c4")
    \/ DestroyDelReply("c4")

SpecRace == InitRace /\ [][NextRace]_vars

-----------------------------------------------------------------------------
(* create and update of one record, over the values _ttl can take *)

TtlCreateInputs ==
    {Obj(id, x, None, t) : id \in {k, spaced},
                           t \in {None} \cup {Num(n) : n \in 1..MaxTtl}}

TtlUpdateInputs == {Obj(None, nm, None, t) : nm \in {None, y}, t \in TtlValues}

TtlCreate(c) == \E data \in TtlCreateInputs : CreateStart(c, u, data)
TtlUpdate(c) == \E values \in TtlUpdateInputs : UpdateStart(c, u, WherePk(k), values)

NextTtl ==
    \/ TtlCreate("c1")
    \/ CreateSetReply("c1")
    \/ CreateGetReply("c1")
    \/ TtlUpdate("c1")
    \/ UpdateGetReply("c1")
    \/ UpdateSetReply("c1")
    \/ Return("c1")
    \/ ExpireStep

SpecTtl == Init /\ [][NextTtl]_vars

-----------------------------------------------------------------------------
(* Properties *)

\* A value the data model allows as a primary key: a present scalar
ValidPk(v) == (v.t = "str" /\ v.s # <<>>) \/ v.t = "num"

\* The call in slot c is over and called back once, without an error
Succeeded(c) ==
    /\ calls[c].pc = "done"
    /\ Len(calls[c].cbs) = 1
    /\ calls[c].cbs[1].err = ""

\* C1: round trip.  Once create(collection, data) with a valid primary-key
\* value has called back with its record, and before anything else touches the
\* store, find(collection, {where: {pk: value}}) yields exactly that record.
C1_RoundTrip ==
    \A c \in DOMAIN calls :
        (/\ calls[c].op = "create"
         /\ Succeeded(c)
         /\ ValidPk(GetAttr(calls[c].data, primary(calls[c].coll))))
        => /\ calls[c].cbs[1].kind = "record"
           /\ FindOutcome(store, calls[c].coll,
                  WherePk(GetAttr(calls[c].data, primary(calls[c].coll))))
                = CbList(calls[c].cbs[1].recs)

\* A value that is there: not undefined, null or the empty string, not an array
PresentScalar(v) ==
    /\ v.t \notin {"none", "undef", "null", "arr"}
    /\ ~(v.t = "str" /\ Len(v.s) = 0)

\* The one criteria shape find resolves: a where clause whose only condition
\* is on the primary key pk, with a present value that is not an array
SinglePkCondition(crit, pk) ==
    /\ crit.hasWhere
    /\ {a \in Attrs : crit.where[a].t # "none"} = {pk}
    /\ PresentScalar(crit.where[pk])

\* A where clause with no condition at all
EmptyWhere(crit) == crit.hasWhere /\ \A a \in Attrs : crit.where[a].t = "none"

\* The step by which slot c takes up a call of op
Enters(c, op) == calls[c].pc = "idle" /\ calls'[c].op = op

\* The step by which the call of op in slot c, waiting at pc, calls back
\* without an error and is over
Finishes(c, op, pc) ==
    /\ At(c, op, pc)
    /\ calls'[c].pc = "done"
    /\ calls'[c].cbs[Len(calls'[c].cbs)].err = ""

C3_PrimaryKeyFixed ==
    [][\A c \in DOMAIN calls :
         LET call == calls'[c]
             pk == primary(call.coll)
             read == calls[c].reqs[1].key
         IN  /\ (/\ Enters(c, "update")
                 /\ call.crit.hasWhere
                 /\ PresentScalar(call.data[pk])
                 /\ call.data[pk] # call.crit.where[pk])
                => /\ call.pc = "done"
                   /\ call.cbs = <<CbErr("PrimaryKeyUpdate")>>
                   /\ call.reqs = <<>>
                   /\ store' = store
             /\ Finishes(c, "update", "set")
                => /\ calls[c].key = read
                   /\ Has(store, read) /\ Has(store', read)
                   /\ EntryAt(store', read).val.json[pk]
                        = EntryAt(store, read).val.json[pk]]_vars

\* obj.a as the caller reads it: an absent attribute reads as undefined
Read(v) == IF v.t = "none" THEN Undef ELSE v

\* Two records that read the same on every attribute
SameRecord(r1, r2) == \A a \in Attrs : Read(r1[a]) = Read(r2[a])

\* C4: update merges.  A successful update of the record r calls back with one
\* record that has values[a] for every attribute a of values and r[a] for
\* every other one, and a find with the same criteria then yields that record.
C4_Merge ==
    [][\A c \in DOMAIN calls :
         Finishes(c, "update", "set")
         => LET cb == calls'[c].cbs[1]
                values == calls[c].data
                r == FindOutcome(store, calls[c].coll, calls[c].crit).recs[1]
            IN  /\ cb.kind = "list"
                /\ Len(cb.recs) = 1
                /\ \A a \in Attrs :
                     Read(cb.recs[1][a])
                       = Read(IF values[a].t # "none" THEN values[a] ELSE r[a])
                /\ LET found == FindOutcome(store', calls[c].coll, calls[c].crit)
                   IN  /\ found.err = "" /\ found.kind = "list"
                       /\ Len(found.recs) = 1
                       /\ SameRecord(found.recs[1], cb.recs[1])]_vars

\* C5: destroy by primary key.  When nothing is stored under the key it calls
\* back with an empty list and issues no delete; when a record is stored it
\* issues one delete, of that key, calls back with the text that was stored,
\* leaves every other key as it was, and a find with the same criteria then
\* yields an empty list.
C5_DestroyOne ==
    [][\A c \in DOMAIN calls :
         /\ Finishes(c, "destroy", "get")
            => /\ ~Has(store, calls[c].key)
               /\ calls'[c].cbs = <<CbList(<<>>)>>
               /\ \A i \in 1..Len(calls'[c].reqs) : calls'[c].reqs[i].cmd # "del"
               /\ store' = store
         /\ (At(c, "destroy", "get") /\ ~Has(store, calls[c].key))
            => calls'[c].pc = "done"
         /\ Finishes(c, "destroy", "del")
            => /\ Has(store, calls[c].key)
               /\ calls'[c].cbs = <<CbRaw(EntryAt(store, calls[c].key).val)>>
               /\ {i \in 1..Len(calls'[c].reqs) : calls'[c].reqs[i].cmd = "del"} = {2}
               /\ calls'[c].reqs[2].key = FindKey(calls[c].coll, calls[c].crit)
               /\ store' = store \ {EntryAt(store, calls[c].key)}
               /\ FindOutcome(store', calls[c].coll, calls[c].crit) = CbList(<<>>)]_vars

\* C5 happens: a destroy has returned a stored record and other records remain
C5_Witness ==
    /\ calls["c1"].op = "destroy"
    /\ calls["c1"].pc = "done"
    /\ Len(calls["c1"].cbs) = 1
    /\ calls["c1"].cbs[1].kind = "raw"
    /\ store # {}

\* The collection name create, find and destroy were called with denote the
\* same collection
SameCollection(n, m) == toLowerCase(n) = toLowerCase(m)

\* C6: destroy-all.  Once destroy with an empty where has succeeded, none of
\* the records create can have written for the collection is in the store, and
\* a find by any primary-key value create was called with yields an empty list.
C6_DestroyAll ==
    \A c \in DOMAIN calls :
        (/\ calls[c].op = "destroy"
         /\ EmptyWhere(calls[c].crit)
         /\ Succeeded(c))
        => \A in \in CreateInputs :
             SameCollection(in[1], calls[c].coll)
             => /\ ~Has(store, CreateKey(in[1], in[2]))
                /\ ValidPk(in[2][primary(in[1])])
                   => FindOutcome(store, calls[c].coll,
                          WherePk(in[2][primary(in[1])])) = CbList(<<>>)

\* Some request of the drop in slot c has failed
DropFailed(c) == calls[c].failed

\* C7: drop's completion.  A drop, or a destroy with an empty where, whose key
\* scan or one of whose deletions failed has called back with the error and
\* then once more without one; a drop that is over and met no failure has
\* called back exactly once, without an error.
C7_DropCompletion ==
    \A c \in DOMAIN calls :
        (/\ calls[c].op \in {"drop", "destroy"}
         /\ calls[c].op = "destroy" => EmptyWhere(calls[c].crit))
        => /\ DropFailed(c) => calls[c].cbs = <<CbErr("StoreError"), CbNothing>>
           /\ (~DropFailed(c) /\ calls[c].pc = "done") => calls[c].cbs = <<CbNothing>>
           /\ (~DropFailed(c) /\ calls[c].pc # "done") => calls[c].cbs = <<>>

\* C7 happens: a destroy-all is over, one of its deletions having failed
C7_Witness ==
    /\ calls["c1"].op = "destroy"
    /\ EmptyWhere(calls["c1"].crit)
    /\ calls["c1"].pc = "done"
    /\ calls["c1"].failed
    /\ Len(calls["c1"].reqs) > 2
    /\ Len(calls["c1"].cbs) = 2

\* C8: _set's write primitive.  With t the number data._ttl coerces to: data
\* that cannot be serialised is reported and nothing is written; otherwise
\* _set issues exactly one write for the key, a plain set when t is not a
\* number, 0 or -1, and else a set-with-expiry of t seconds.
C8_SetPrimitive ==
    \A c \in DOMAIN calls :
        calls[c].op = "_set"
        => LET call == calls[c]
               t == ToNumber(call.data["_ttl"])
               plain == t.t = "nan" \/ t.n \in {0, -1}
           IN  IF \E a \in Attrs : call.data[a].t = "circ"
               THEN /\ call.pc = "done"
                    /\ call.cbs = <<CbErr("SerializationFailure")>>
                    /\ call.reqs = <<>>
               ELSE /\ Len(call.reqs) = 1
                    /\ call.reqs[1].key = call.key
                    /\ plain => call.reqs[1].cmd = "set"
                    /\ ~plain => /\ call.reqs[1].cmd = "setex"
                                 /\ call.reqs[1].ttl = t.n

\* C8 happens: a _set whose _ttl is the text "5" has written with expiry 5
C8_Witness ==
    /\ calls["c1"].op = "_set"
    /\ calls["c1"].data["_ttl"] = Str(<<"5">>)
    /\ calls["c1"].pc = "done"
    /\ calls["c1"].cbs = <<CbNothing>>
    /\ calls["c1"].reqs = <<Req("setex", calls["c1"].key, 5)>>
    /\ \E e \in store : e.key = calls["c1"].key /\ e.ttl = 5

\* C9: describe.  It fails with collectionNotRegistered when the registry holds
\* nothing for the name; it yields null when the description is empty or the
\* collection was never defined; else it yields the registered description.
\* It changes neither the registry nor the store.
C9_Describe ==
    [][\A c \in DOMAIN calls :
         Enters(c, "describe")
         => LET coll == calls'[c].coll
                name == toLowerCase(coll)
            IN  /\ calls'[c].pc = "done"
                /\ calls'[c].cbs =
                     << IF name \notin registered
                          THEN CbErr("collectionNotRegistered")
                        ELSE IF \/ \A a \in Attrs : schemaDefs[name][a].type = ""
                                \/ ~\E d \in definedCollections : SameCollection(d, coll)
                          THEN CbNull
                        ELSE CbDesc(schemaDefs[name]) >>
                /\ UNCHANGED <<store, schemaDefs, registered, primaryOf,
                               definedCollections>>]_vars

\* C10: stored-record invariant.  Every record in the store has the primary-key
\* attribute with a present scalar value.
C10_StoredPrimaryKey ==
    \A e \in store : ValidPk(e.val.json[PrimaryIn(FullDef)])

\* The position of the first ":" of s
RECURSIVE FirstColon(_, _)
FirstColon(s, i) ==
    IF i > Len(s) THEN i ELSE IF s[i] = ":" THEN i ELSE FirstColon(s, i + 1)

\* The collection a storage key names: what lies between its first two colons
KeyCollection(key) ==
    LET rest == SubSeq(key, 3, Len(key))
    IN  SubSeq(rest, 1, FirstColon(rest, 1) - 1)

\* The call in slot c runs drop's code: a drop, or a destroy with an empty where
Dropping(call) ==
    call.op = "drop" \/ (call.op = "destroy" /\ EmptyWhere(call.crit))

HoldsExactly(text, data) == \A a \in Attrs : text.json[a] = JsonValue(data[a])

\* C12: last write wins on create.  create issues its write first, without a
\* read of the key; a write over an existing record replaces it as a whole
\* and leaves every other key alone, and a find by the record's primary key
\* then yields exactly the new record; once two creates on one key have both
\* succeeded, the record stored under the key is wholly the one or the other.
C12_LastWriteWins ==
    [][\A c \in DOMAIN calls :
         LET call == calls[c]
             pk == primary(call.coll)
         IN  /\ (Enters(c, "create") /\ calls'[c].pc # "done")
                => /\ Len(calls'[c].reqs) = 1
                   /\ calls'[c].reqs[1].cmd \in {"set", "setex"}
             /\ (At(c, "create", "set") /\ calls'[c].pc = "get" /\ Has(store, call.key))
                => /\ Has(store', call.key)
                   /\ HoldsExactly(EntryAt(store', call.key).val, call.data)
                   /\ \A e \in store : e.key # call.key => e \in store'
                   /\ ValidPk(call.data[pk])
                      => LET found == FindOutcome(store', call.coll,
                                                  WherePk(call.data[pk]))
                         IN  /\ found.err = "" /\ Len(found.recs) = 1
                             /\ SameRecord(found.recs[1], call.data)
             /\ \A d \in DOMAIN calls :
                  (/\ c # d
                   /\ calls'[c].op = "create" /\ calls'[d].op = "create"
                   /\ calls'[c].pc = "done" /\ calls'[d].pc = "done"
                   /\ calls'[c].cbs[1].err = "" /\ calls'[d].cbs[1].err = ""
                   /\ calls'[c].key = calls'[d].key
                   /\ Has(store', calls'[c].key))
                  => \/ HoldsExactly(EntryAt(store', calls'[c].key).val, calls'[c].data)
                     \/ HoldsExactly(EntryAt(store', calls'[c].key).val, calls'[d].data)]_vars

\* The record a read of key yields from store st for collection coll, as a
\* list: empty when nothing is stored under the key
ReadOf(st, coll, key) ==
    IF Has(st, key)
    THEN <<schemaParse(schemaDefs, registered, replaceSpaces(toLowerCase(coll)),
                       EntryAt(st, key).val.json)>>
    ELSE <<>>

\* C13: create is write-then-read.  Its first request is the write; the read,
\* of the same key, is issued by the step that completes the write; a failed
\* write ends the call with the error and without a read; the call ends on the
\* read's reply and, unless the read failed, calls back with what the store
\* holds under the key at that moment, whatever other calls or an expiry did
\* between the write and the read.
C13_WriteThenRead ==
    [][\A c \in DOMAIN calls :
         LET old == calls[c]
             new == calls'[c]
         IN  /\ (Enters(c, "create") /\ new.pc # "done")
                => /\ new.pc = "set"
                   /\ Len(new.reqs) = 1
                   /\ new.reqs[1].cmd \in {"set", "setex"}
                   /\ store' = store
             /\ (At(c, "create", "set") /\ new # old)
                => \/ /\ new.pc = "get"
                      /\ new.reqs = Append(old.reqs, Req("get", old.reqs[1].key, 0))
                      /\ new.cbs = <<>>
                      /\ Has(store', old.reqs[1].key)
                      /\ HoldsExactly(EntryAt(store', old.reqs[1].key).val, old.data)
                   \/ /\ new.pc = "done"
                      /\ new.cbs = <<CbErr("StoreError")>>
                      /\ new.reqs = old.reqs
                      /\ store' = store
             /\ (At(c, "create", "get") /\ new # old)
                => /\ new.pc = "done"
                   /\ new.reqs = old.reqs
                   /\ store' = store
                   /\ Len(new.cbs) = 1
                   /\ new.cbs[1].err = ""
                      => new.cbs[1].recs = ReadOf(store', old.coll, old.reqs[1].key)]_vars

\* C13 happens: a create has called back with a record that is not the one it
\* wrote, another call having written the key between its write and its read
C13_Witness ==
    /\ calls["c1"].op = "create"
    /\ Succeeded("c1")
    /\ calls["c1"].cbs[1].kind = "record"
    /\ ~SameRecord(calls["c1"].cbs[1].recs[1], calls["c1"].data)
    /\ calls["c1"].cbs[1].recs = ReadOf(store, u, calls["c1"].key)

\* The requests of a call that write to the store
Writes(call) == {i \in 1..Len(call.reqs) : call.reqs[i].cmd \in {"set", "setex"}}

\* C14: update resolves, then mutates.  The step that takes up an update
\* issues at most the find phase's read and no write; a write is only ever
\* issued by the step that takes the read's reply; when the find phase fails
\* (criteria it cannot resolve, or a failed read) update calls back with that
\* error and has written nothing; when nothing is stored under the criteria's
\* key it calls back with an empty list and has written nothing.
C14_ResolveThenMutate ==
    [][\A c \in DOMAIN calls :
         LET old == calls[c]
             new == calls'[c]
         IN  /\ Enters(c, "update")
                => /\ store' = store
                   /\ \/ new.pc = "thrown" /\ new.reqs = <<>> /\ new.cbs = <<>>
                      \/ new.pc = "done" /\ new.reqs = <<>>
                            /\ Len(new.cbs) = 1 /\ new.cbs[1].err # ""
                      \/ new.pc = "get" /\ new.cbs = <<>>
                            /\ new.reqs = <<Req("get", FindKey(new.coll, new.crit), 0)>>
             /\ (old.op = "update" /\ new.op = "update"
                   /\ Writes(new) # Writes(old))
                => /\ old.pc = "get"
                   /\ Has(store, old.reqs[1].key)
                   /\ Writes(old) = {} /\ Writes(new) = {2}
                   /\ store' = store
             /\ (At(c, "update", "get") /\ new.pc = "done")
                => /\ Writes(new) = {}
                   /\ store' = store
                   /\ new.cbs \in {<<CbErr("StoreError")>>,
                                   <<CbErr("SerializationFailure")>>,
                                   <<CbList(<<>>)>>}
             /\ (At(c, "update", "get") /\ new # old /\ ~Has(store, old.reqs[1].key))
                => /\ new.pc = "done"
                   /\ new.cbs \in {<<CbErr("StoreError")>>, <<CbList(<<>>)>>}
             /\ (old.op = "update" /\ new # old /\ ~(old.pc = "set" /\ new.pc = "done"))
                => store' = store]_vars

\* C14 happens: an update that found no record has called back with an empty
\* list while other records are stored
C14_Witness ==
    /\ calls["c1"].op = "update"
    /\ calls["c1"].pc = "done"
    /\ calls["c1"].cbs = <<CbList(<<>>)>>
    /\ calls["c1"].reqs = <<Req("get", calls["c1"].key, 0)>>
    /\ store # {}

\* C15: no isolation between resolve and mutate.  Whenever the store accepts
\* the write of an update, the update succeeds and the store then holds the
\* record the update merged from its earlier read, whatever the store held
\* under the key in between, nothing included; a destroy whose delete the
\* store accepts returns the record it read earlier.  So a destroy can succeed
\* and the record exist afterwards, and of two successful updates of different
\* attributes the store can carry only one change.
C15_NoIsolation ==
    [][\A c \in DOMAIN calls :
         LET old == calls[c]
             new == calls'[c]
         IN  /\ (At(c, "update", "set") /\ new # old)
                => /\ new.pc = "done"
                   /\ \/ new.cbs = <<CbErr("StoreError")>> /\ store' = store
                      \/ /\ new.cbs = <<CbList(<<old.item>>)>>
                         /\ Has(store', old.key)
                         /\ HoldsExactly(EntryAt(store', old.key).val, old.item)
             /\ (At(c, "destroy", "del") /\ new # old)
                => /\ new.pc = "done"
                   /\ \/ new.cbs = <<CbErr("StoreError")>> /\ store' = store
                      \/ /\ new.cbs = <<CbRaw([json |-> old.item])>>
                         /\ ~Has(store', old.key)]_vars

\* C15 happens: the record was created once; the destroy has succeeded with
\* the record as created; both updates have succeeded, each on the record as
\* created; and the record is in the store, with the date but the old name
C15_Witness ==
    /\ Succeeded("c1") /\ Succeeded("c2") /\ Succeeded("c3") /\ Succeeded("c4")
    /\ calls["c4"].cbs = <<CbRaw([json |-> RaceRecord])>>
    /\ calls["c2"].cbs = <<CbList(<<extend(RaceRecord, RaceName)>>)>>
    /\ calls["c3"].cbs = <<CbList(<<extend(RaceRecord, RaceDate)>>)>>
    /\ \E e \in store :
         /\ e.key = calls["c4"].key
         /\ e.val.json["name"] = x
         /\ e.val.json["at"] = Str(later.s)

\* define was called for the collection coll names, under any letter case
DefinedUnder(coll) == \E d \in definedCollections : SameCollection(d, coll)

\* C16: the names of define and describe are case-insensitive.  For a
\* collection whose registered description is not empty, describe under any
\* spelling of the name yields the description once define was called under
\* any spelling of it, and yields null only when define never was.
C16_CaseInsensitive ==
    [][\A c \in DOMAIN calls :
         LET coll == calls'[c].coll
             name == toLowerCase(coll)
         IN  (/\ Enters(c, "describe")
              /\ name \in registered
              /\ \E a \in Attrs : schemaDefs[name][a].type # "")
             => /\ DefinedUnder(coll) => calls'[c].cbs = <<CbDesc(schemaDefs[name])>>
                /\ calls'[c].cbs = <<CbNull>> => ~DefinedUnder(coll)]_vars

\* C17: the reserved _ttl attribute is stored with the record.  When a create
\* whose data carries a numeric _ttl of t has succeeded, the text stored under
\* its key, the record it calls back with and the record a find by the
\* record's primary key then yields all carry _ttl with the value t.
C17_TtlStored ==
    [][\A c \in DOMAIN calls :
         LET call == calls[c]
             pk == primary(call.coll)
             t == call.data["_ttl"]
         IN  (Finishes(c, "create", "get") /\ t.t = "num")
             => /\ Has(store', call.key)
                /\ EntryAt(store', call.key).val.json["_ttl"] = t
                /\ calls'[c].cbs[1].kind = "record"
                /\ calls'[c].cbs[1].recs[1]["_ttl"] = t
                /\ ValidPk(call.data[pk])
                   => LET found == FindOutcome(store', call.coll, WherePk(call.data[pk]))
                      IN  /\ found.err = "" /\ Len(found.recs) = 1
                          /\ found.recs[1]["_ttl"] = t]_vars

\* The calls C18 is about: find, create, update, and destroy by primary key
OutsideDrop(call) ==
    \/ call.op \in {"find", "create", "update"}
    \/ call.op = "destroy" /\ SinglePkCondition(call.crit, primary(call.coll))

\* C18: single completion outside the drop path.  A find, create, update or
\* destroy by primary key that is over has invoked its callback exactly once,
\* and one that still waits for the store has not invoked it yet.
C18_SingleCompletion ==
    \A c \in DOMAIN calls :
        OutsideDrop(calls[c])
        => /\ calls[c].pc \in {"get", "set", "del", "done"}
           /\ calls[c].pc = "done" => Len(calls[c].cbs) = 1
           /\ calls[c].pc # "done" => calls[c].cbs = <<>>

\* The step by which the update in slot c issues its write
IssuesWrite(c) == At(c, "update", "get") /\ calls'[c].pc = "set"

\* The write that step issues
IssuedWrite(c) == calls'[c].reqs[Len(calls'[c].reqs)]

\* The _ttl of the record stored under the key the update in slot c reads
StoredTtl(c) == EntryAt(store, calls[c].reqs[1].key).val.json["_ttl"]

\* C19 as stated: a record stored with a positive _ttl of t is rewritten by an
\* update whose values carry no _ttl with an expiry of t, and by a plain set
\* only when the values set _ttl to 0 or -1; a record stored without _ttl is
\* rewritten by an update whose values carry no _ttl with a plain set.
C19_AsStated ==
    [][\A c \in DOMAIN calls :
         IssuesWrite(c)
         => LET t == StoredTtl(c)
                v == calls[c].data["_ttl"]
            IN  /\ (t.t = "num" /\ t.n > 0 /\ v = None)
                   => IssuedWrite(c) = Req("setex", calls'[c].key, t.n)
                /\ (t.t = "num" /\ t.n > 0 /\ IssuedWrite(c).cmd = "set")
                   => v \in {Num(0), Num(-1)}
                /\ (t = None /\ v = None) => IssuedWrite(c).cmd = "set"]_vars

\* C19, amended: as stated, but the plain set is issued only when the values
\* carry a _ttl whose number is 0, -1 or not a number; and the record then
\* stored expires after t, or never, accordingly.
C19_ExpirySurvives ==
    [][\A c \in DOMAIN calls :
         /\ IssuesWrite(c)
            => LET t == StoredTtl(c)
                   v == calls[c].data["_ttl"]
                   n == ToNumber(v)
               IN  /\ (t.t = "num" /\ t.n > 0 /\ v = None)
                      => IssuedWrite(c) = Req("setex", calls'[c].key, t.n)
                   /\ (t.t = "num" /\ t.n > 0 /\ IssuedWrite(c).cmd = "set")
                      => v # None /\ (n.t = "nan" \/ n.n \in {0, -1})
                   /\ (t = None /\ v = None) => IssuedWrite(c).cmd = "set"
         /\ Finishes(c, "update", "set")
            => LET w == calls[c].reqs[2]
               IN  /\ Has(store', w.key)
                   /\ EntryAt(store', w.key).ttl = IF w.cmd = "setex" THEN w.ttl ELSE 0]_vars

\* C19 happens: an update without _ttl of a record stored with _ttl 2 has
\* succeeded, and the record is stored with an expiry of 2
C19_Witness ==
    /\ calls["c1"].op = "update"
    /\ Succeeded("c1")
    /\ calls["c1"].data = Obj(None, y, None, None)
    /\ Len(calls["c1"].reqs) = 2
    /\ calls["c1"].reqs[2] = Req("setex", calls["c1"].key, 2)
    /\ \E e \in store : e.key = calls["c1"].key /\ e.ttl = 2 /\ e.val.json["name"] = y

\* The key find, update and destroy derive for the stored record e in some
\* collection is the key e lies under
UnderItsKey(e) ==
    \E n \in Names :
        e.key = recordKey(toLowerCase(n), primary(n), e.val.json[primary(n)])

\* C20: key/record consistency.  After every step each stored record lies
\* under the key derived from its collection, its primary-key attribute and
\* its primary-key value, and the write an update issues is for the key the
\* update read.
C20_KeyConsistency ==
    [][/\ \A e \in store' : UnderItsKey(e)
       /\ \A c \in DOMAIN calls :
            IssuesWrite(c) => IssuedWrite(c).key = calls[c].reqs[1].key]_vars

====
